---- MODULE Spec2Model ----
(***************************************************************************)
(* Model of analyse_windows_ci_times.py: the run-listing loop, the         *)
(* per-run job fetch coroutines gathered by fetch_all_jobs, the filter     *)
(* that builds the result rows, and the CSV writer.  The GitHub API is a   *)
(* fixed fixture (a listing of workflow runs, a job list per run) served   *)
(* in pages of per_page items; every request may answer with an error      *)
(* status or never answer.                                                 *)
(***************************************************************************)
EXTENDS Integers, Sequences, FiniteSets

VARIABLES
    fixture,            \* what the API holds: the shape of the run listing and job lists
    now,                \* datetime.now() when the script starts
    three_months_ago,   \* the cutoff of line 77
    runs,               \* retained runs (line 82)
    page,               \* page of the run-listing loop (line 83)
    should_continue,    \* line 84
    pc,                 \* where the script is
    tasks,              \* one fetch_jobs_for_run coroutine per retained run
    completed,          \* task indexes in the order the coroutines returned
    results,            \* the flattened result list (lines 168-172)
    csv,                \* the output file of this execution
    run_requests,       \* page numbers requested from the run-listing endpoint
    http_failed,        \* some response of this execution carried an error status
    execution,          \* 1: first execution of the script, 2: the re-run
    previous            \* cutoff and results of the first execution, once re-run

vars == <<fixture, now, three_months_ago, runs, page, should_continue, pc, tasks,
          completed, results, csv, run_requests, http_failed, execution, previous>>

----------------------------------------------------------------------------
(* Bounds of the model *)

\* longest run listing: MaxRunPages full pages and two more runs
MaxRunPages == 3
\* runs of a short listing, and successful runs of a long one
MaxRuns == 2
\* longest job list: MaxJobPages full pages and one more job
MaxJobPages == 2

(* Program constants *)

PER_PAGE == 100
NinetyDays == 90 * 86400
PLATFORM == <<"w", "i", "n", "d", "o", "w", "s">>
FIELDNAMES == <<"run_id", "run_date", "job_name", "duration_seconds", "duration_minutes">>

----------------------------------------------------------------------------
(* Helpers *)

Range(s) == {s[i] : i \in DOMAIN s}

Min(a, b) == IF a < b THEN a ELSE b

\* the multiset of the elements of a sequence
BagOfSeq(s) == [x \in Range(s) |-> Cardinality({i \in DOMAIN s : s[i] = x})]

RECURSIVE Concat(_)
Concat(ss) == IF ss = <<>> THEN <<>> ELSE Head(ss) \o Concat(Tail(ss))

----------------------------------------------------------------------------
(* str.lower() and the substring test of line 142, on names as character   *)
(* sequences                                                               *)

UPPERCASE == <<"A","B","C","D","E","F","G","H","I","J","K","L","M",
               "N","O","P","Q","R","S","T","U","V","W","X","Y","Z">>
LOWERCASE == <<"a","b","c","d","e","f","g","h","i","j","k","l","m",
               "n","o","p","q","r","s","t","u","v","w","x","y","z">>

LowerChar(c) ==
    IF \E k \in DOMAIN UPPERCASE : UPPERCASE[k] = c
    THEN LOWERCASE[CHOOSE k \in DOMAIN UPPERCASE : UPPERCASE[k] = c]
    ELSE c

Lower(s) == [k \in DOMAIN s |-> LowerChar(s[k])]

\* sub in s
Contains(sub, s) ==
    \E off \in 0..(Len(s) - Len(sub)) : SubSeq(s, off + 1, off + Len(sub)) = sub

----------------------------------------------------------------------------
(* The API fixture *)

NAMES == <<
    <<"w","i","n","d","o","w","s","-","2">>,
    <<"W","i","n","d","o","w","s">>,
    <<"u","b","u","n","t","u">>,
    <<"x","-","W","I","N","D","O","W","S">>,
    <<"w","i","n","d","o","w">>,
    <<"w","i","n","-","d","o","w","s">> >>
CONCLUSIONS == <<"success", "failure", "skipped">>

\* creation time of the newest run of the listing
Newest == 200 * NinetyDays

\* job lists hold 0, 1, or a multiple of the page size minus one, plus zero, plus one
JobCounts == <<0, 1>> \o
    [j \in 1..(3 * MaxJobPages) |-> ((j + 2) \div 3) * PER_PAGE + ((j + 2) % 3) - 1]

LongListing == MaxRunPages * PER_PAGE + 2

\* the successful runs of a long listing: up to MaxRuns runs in a row, from
\* the first run or from the last run of a full page
SuccessRows ==
    {b..(b + c - 1) : b \in {1} \cup {p * PER_PAGE : p \in 1..MaxRunPages}, c \in 0..MaxRuns}

\* short listings, with every job-list length
ShortFixtures ==
    {[nruns |-> n, success |-> s, stale |-> 0, jobshift |-> j, age |-> a] :
        n \in 0..MaxRuns, s \in SUBSET (1..MaxRuns), j \in 0..(Len(JobCounts) - 1),
        a \in {0, MaxRuns + 1}}

\* long listings, some with a run out of creation-time order (stale)
LongFixtures ==
    {[nruns |-> LongListing, success |-> s, stale |-> st, jobshift |-> 0, age |-> a] :
        s \in SuccessRows, st \in {0, 2, PER_PAGE + 1},
        a \in {-1} \cup {p * PER_PAGE + d : p \in 0..MaxRunPages, d \in {-1, 0}}
               \cup {LongListing + 1}}

Fixtures == {f \in ShortFixtures : f.success \subseteq 1..f.nruns} \cup LongFixtures

RunAt(f, i) ==
    [id |-> i,
     created_at |-> IF i = f.stale THEN Newest - NinetyDays ELSE Newest - (i - 1),
     conclusion |-> IF i \in f.success THEN "success"
                    ELSE IF i % 2 = 0 THEN "failure" ELSE "cancelled",
     jobs_url |-> i]

\* the completed workflow runs, as the listing endpoint orders them
WorkflowRuns == [i \in 1..fixture.nruns |-> RunAt(fixture, i)]

JobCount(url) == JobCounts[((url + fixture.jobshift) % Len(JobCounts)) + 1]

JobAt(url, i) ==
    LET k == i - 1 + url + fixture.jobshift
        start == Newest + 10 * url + i
    IN  [id |-> 1000 * url + i,
         name |-> NAMES[(k % Len(NAMES)) + 1],
         conclusion |-> CONCLUSIONS[((k \div Len(NAMES)) % Len(CONCLUSIONS)) + 1],
         started_at |-> start,
         completed_at |-> start + 60 + 5 * (k % 4)]

\* the jobs of the run whose jobs_url is url
Jobs(url) == [i \in 1..JobCount(url) |-> JobAt(url, i)]

\* page p of a list served with per_page items a page
PageOf(list, per_page, p) ==
    SubSeq(list, (p - 1) * per_page + 1, Min(p * per_page, Len(list)))

\* the number of items on page p of a list of n items
PageLen(n, per_page, p) ==
    IF n <= (p - 1) * per_page THEN 0 ELSE Min(per_page, n - (p - 1) * per_page)

\* the listing endpoint: page p of WorkflowRuns
RunsPage(per_page, p) ==
    [k \in 1..PageLen(fixture.nruns, per_page, p) |->
        RunAt(fixture, (p - 1) * per_page + k)]

\* the jobs endpoint of a run: page p of Jobs(url)
JobsPage(url, per_page, p) ==
    [k \in 1..PageLen(JobCount(url), per_page, p) |->
        JobAt(url, (p - 1) * per_page + k)]

----------------------------------------------------------------------------
(* The run-listing loop, lines 82-109 *)

IsOlderMutant(run_date) == run_date <= three_months_ago
\* line 102
IsOlder(run_date) == run_date < three_months_ago

KeepRunMutant(run) == TRUE
\* line 105
KeepRun(run) == run.conclusion = "success"

ContinueAfterOldRunMutant == TRUE
\* line 103: should_continue once a run older than the cutoff is seen
ContinueAfterOldRun == FALSE

\* the for loop of lines 100-106 over one page: the loop breaks at the first
\* run older than the cutoff, and appends the successful runs before it
ScanRuns(workflow_runs, kept) ==
    LET older == {i \in DOMAIN workflow_runs : IsOlder(workflow_runs[i].created_at)}
        stop == IF older = {} THEN Len(workflow_runs) + 1
                ELSE CHOOSE i \in older : \A j \in older : i <= j
        seen == SubSeq(workflow_runs, 1, stop - 1)
    IN  [runs |-> kept \o SelectSeq(seen, KeepRun),
         should_continue |-> IF older = {} THEN TRUE ELSE ContinueAfterOldRun]

\* the state at line 82, the cutoff of line 77 computed
ProgramStart(clock) ==
    /\ now' = clock
    /\ three_months_ago' = clock - NinetyDays
    /\ runs' = <<>>
    /\ page' = 1
    /\ should_continue' = TRUE
    /\ pc' = "listing"
    /\ tasks' = <<>>
    /\ completed' = <<>>
    /\ results' = <<>>
    /\ csv' = [opened |-> FALSE, lines |-> <<>>]
    /\ run_requests' = <<>>
    /\ http_failed' = FALSE

Init ==
    /\ fixture \in Fixtures
    /\ now = Newest + NinetyDays - fixture.age
    /\ three_months_ago = now - NinetyDays
    /\ runs = <<>>
    /\ page = 1
    /\ should_continue = TRUE
    /\ pc = "listing"
    /\ tasks = <<>>
    /\ completed = <<>>
    /\ results = <<>>
    /\ csv = [opened |-> FALSE, lines |-> <<>>]
    /\ run_requests = <<>>
    /\ http_failed = FALSE
    /\ execution = 1
    /\ previous = <<>>

\* one iteration of the while loop, the response a 2xx
ListRunsPage ==
    /\ pc = "listing"
    /\ should_continue
    /\ LET workflow_runs == RunsPage(PER_PAGE, page)
           scan == ScanRuns(workflow_runs, runs)
       IN  /\ run_requests' = Append(run_requests, page)
           /\ IF workflow_runs = <<>>
              THEN /\ pc' = "listed"
                   /\ UNCHANGED <<runs, page, should_continue>>
              ELSE /\ runs' = scan.runs
                   /\ should_continue' = scan.should_continue
                   /\ page' = page + 1
                   /\ pc' = IF scan.should_continue THEN "listing" ELSE "listed"
    /\ UNCHANGED <<fixture, now, three_months_ago, tasks, completed, results, csv,
                   http_failed, execution, previous>>

\* lines 93-94: the response is an error status, raise_for_status ends the script
ListRunsError ==
    /\ pc = "listing"
    /\ should_continue
    /\ run_requests' = Append(run_requests, page)
    /\ http_failed' = TRUE
    /\ pc' = "aborted"
    /\ UNCHANGED <<fixture, now, three_months_ago, runs, page, should_continue, tasks,
                   completed, results, csv, execution, previous>>

\* line 93: requests.get has no timeout, the response never comes
ListRunsHangs ==
    /\ pc = "listing"
    /\ should_continue
    /\ run_requests' = Append(run_requests, page)
    /\ pc' = "hung"
    /\ UNCHANGED <<fixture, now, three_months_ago, runs, page, should_continue, tasks,
                   completed, results, csv, http_failed, execution, previous>>

----------------------------------------------------------------------------
(* fetch_jobs_for_run, lines 114-158 *)

JobsLoopEndsMutant(jobs) == jobs = <<>>
\* lines 127 and 132: the page read is the last one
JobsLoopEnds(jobs) == jobs = <<>> \/ Len(jobs) < PER_PAGE

JobMatchesMutant(job) == Contains(PLATFORM, job.name) /\ job.conclusion = "success"
\* line 142
JobMatches(job) == Contains(PLATFORM, Lower(job.name)) /\ job.conclusion = "success"

\* lines 143-156; duration_minutes is the quotient of the pair
MakeRow(run, job) ==
    LET duration_seconds == job.completed_at - job.started_at
    IN  [run_id |-> run.id,
         run_date |-> run.created_at,
         job_name |-> job.name,
         duration_seconds |-> duration_seconds,
         duration_minutes |-> <<duration_seconds, 60>>]

\* lines 137-158
RunResults(run, all_jobs) ==
    LET matching == SelectSeq(all_jobs, JobMatches)
    IN  [k \in DOMAIN matching |-> MakeRow(run, matching[k])]

\* the coroutine of lines 114-119, before its first request
NewTask(run) ==
    [run |-> run, page |-> 1, all_jobs |-> <<>>, status |-> "running",
     run_results |-> <<>>, requested |-> <<>>]

\* lines 162-165: one coroutine per retained run, in listing order
fetch_all_jobs ==
    /\ pc = "listed"
    /\ tasks' = [i \in DOMAIN runs |-> NewTask(runs[i])]
    /\ pc' = "gathering"
    /\ UNCHANGED <<fixture, now, three_months_ago, runs, page, should_continue,
                   completed, results, csv, run_requests, http_failed, execution,
                   previous>>

\* one iteration of the while loop of task i, the response a 2xx; on the last
\* page the coroutine filters its jobs and returns
FetchJobsPage(i) ==
    /\ pc = "gathering"
    /\ tasks[i].status = "running"
    /\ LET t == tasks[i]
           jobs == JobsPage(t.run.jobs_url, PER_PAGE, t.page)
           all_jobs == t.all_jobs \o jobs
       IN  IF JobsLoopEnds(jobs)
           THEN /\ tasks' = [tasks EXCEPT ![i] =
                       [t EXCEPT !.all_jobs = all_jobs,
                                 !.requested = Append(t.requested, t.page),
                                 !.status = "done",
                                 !.run_results = RunResults(t.run, all_jobs)]]
                /\ completed' = Append(completed, i)
           ELSE /\ tasks' = [tasks EXCEPT ![i] =
                       [t EXCEPT !.all_jobs = all_jobs,
                                 !.requested = Append(t.requested, t.page),
                                 !.page = t.page + 1]]
                /\ UNCHANGED completed
    /\ UNCHANGED <<fixture, now, three_months_ago, runs, page, should_continue, pc,
                   results, csv, run_requests, http_failed, execution, previous>>

JobsErrorSwallowedMutant(i) ==
    /\ tasks' = [tasks EXCEPT ![i] =
           [@ EXCEPT !.requested = Append(@, tasks[i].page), !.status = "done"]]
    /\ completed' = Append(completed, i)
    /\ pc' = pc
\* lines 124 and 166: raise_for_status raises in task i, gather hands the
\* exception to fetch_all_jobs and asyncio.run ends the script
JobsErrorRaised(i) ==
    /\ tasks' = [tasks EXCEPT ![i] =
           [@ EXCEPT !.requested = Append(@, tasks[i].page), !.status = "failed"]]
    /\ completed' = completed
    /\ pc' = "aborted"

\* a job-list page of task i answers with an error status
FetchJobsError(i) ==
    /\ pc = "gathering"
    /\ tasks[i].status = "running"
    /\ http_failed' = TRUE
    /\ JobsErrorRaised(i)
    /\ UNCHANGED <<fixture, now, three_months_ago, runs, page, should_continue,
                   results, csv, run_requests, execution, previous>>

\* line 123: no timeout is set, the response of task i never comes
FetchJobsHangs(i) ==
    /\ pc = "gathering"
    /\ tasks[i].status = "running"
    /\ tasks' = [tasks EXCEPT ![i] =
           [@ EXCEPT !.requested = Append(@, tasks[i].page), !.status = "hung"]]
    /\ UNCHANGED <<fixture, now, three_months_ago, runs, page, should_continue, pc,
                   completed, results, csv, run_requests, http_failed, execution,
                   previous>>

----------------------------------------------------------------------------
(* fetch_all_jobs after the gather, lines 166-172, and the CSV, lines 181-195 *)

GatherReadyMutant == \E i \in DOMAIN tasks : tasks[i].status = "done"
GatherReadyTimeoutMutant == \A i \in DOMAIN tasks : tasks[i].status \in {"done", "hung"}
\* line 166: the await of asyncio.gather returns
GatherReady == \A i \in DOMAIN tasks : tasks[i].status = "done"

GatheredMutant == [k \in DOMAIN completed |-> tasks[completed[k]].run_results]
\* line 166: results_nested, in the order of the awaitables
Gathered == [i \in DOMAIN tasks |-> tasks[i].run_results]

\* lines 166-172
Flatten ==
    /\ pc = "gathering"
    /\ GatherReady
    /\ results' = Concat(Gathered)
    /\ pc' = "write"
    /\ UNCHANGED <<fixture, now, three_months_ago, runs, page, should_continue, tasks,
                   completed, csv, run_requests, http_failed, execution, previous>>

\* the line DictWriter writes for a row
CsvLine(row) == [k \in DOMAIN FIELDNAMES |-> row[FIELDNAMES[k]]]

\* lines 181-195
WriteCsv ==
    /\ pc = "write"
    /\ csv' = [opened |-> TRUE,
               lines |-> <<FIELDNAMES>> \o [k \in DOMAIN results |-> CsvLine(results[k])]]
    /\ pc' = "done"
    /\ UNCHANGED <<fixture, now, three_months_ago, runs, page, should_continue, tasks,
                   completed, results, run_requests, http_failed, execution, previous>>

----------------------------------------------------------------------------
(* Specifications *)

Next ==
    \/ ListRunsPage
    \/ ListRunsError
    \/ ListRunsHangs
    \/ fetch_all_jobs
    \/ \E i \in DOMAIN tasks : FetchJobsPage(i)
    \/ \E i \in DOMAIN tasks : FetchJobsError(i)
    \/ \E i \in DOMAIN tasks : FetchJobsHangs(i)
    \/ Flatten
    \/ WriteCsv

Spec == Init /\ [][Next]_vars

\* how much later the script is run again
Delays == {0, 1, MaxRuns + 1}

\* the script is run a second time against the same fixture
Rerun ==
    /\ pc = "done"
    /\ execution = 1
    /\ execution' = 2
    /\ previous' = [three_months_ago |-> three_months_ago, results |-> results]
    /\ \E d \in Delays : ProgramStart(now + d)
    /\ UNCHANGED fixture

InitRerun == Init /\ fixture \in ShortFixtures

NextRerun == Next \/ Rerun

SpecRerun == InitRerun /\ [][NextRerun]_vars

----------------------------------------------------------------------------
(* Properties *)

Listed == pc \in {"listed", "gathering", "write", "done"}
Flattened == pc \in {"write", "done"}

\* the same letter, whatever the case
SameLetter(a, b) ==
    a = b \/ \E k \in DOMAIN UPPERCASE : {a, b} = {UPPERCASE[k], LOWERCASE[k]}

\* the name holds the platform token, compared case-insensitively
HasPlatformToken(name) ==
    \E off \in 0..(Len(name) - Len(PLATFORM)) :
        \A k \in DOMAIN PLATFORM : SameLetter(name[off + k], PLATFORM[k])

Qualifies(job) == HasPlatformToken(job.name) /\ job.conclusion = "success"

RowsOfQualifying(run, jobs) ==
    LET q == SelectSeq(jobs, Qualifies) IN [k \in DOMAIN q |-> MakeRow(run, q[k])]

\* C1: once the results are flattened they hold, as a multiset, exactly one row
\* for each fetched job whose name holds "windows" in any case and whose
\* conclusion is success, and no row for any other job.
C1_RowIffWindowsSuccess ==
    Flattened =>
        BagOfSeq(results) =
            BagOfSeq(Concat([i \in DOMAIN tasks |->
                RowsOfQualifying(tasks[i].run, tasks[i].all_jobs)]))

C1_Witness ==
    /\ pc = "done"
    /\ \E i \in DOMAIN tasks : \E a, b, c \in Range(tasks[i].all_jobs) :
        /\ a.name # Lower(a.name) /\ Qualifies(a)
        /\ HasPlatformToken(b.name) /\ b.conclusion # "success"
        /\ ~HasPlatformToken(c.name) /\ c.conclusion = "success"
        /\ \E x \in DOMAIN results : results[x].job_name = a.name

\* C2: no row of the results carries the id of a listed run whose conclusion
\* is not success, whatever the order of the listing.
C2_NoRowOfUnsuccessfulRun ==
    LET ids == {results[x].run_id : x \in DOMAIN results}
        listing == WorkflowRuns
    IN  \A k \in DOMAIN listing :
            listing[k].conclusion # "success" => listing[k].id \notin ids

C2_Witness ==
    /\ pc = "done"
    /\ results # <<>>
    /\ \E k \in 1..fixture.nruns :
        LET run == RunAt(fixture, k)
        IN  /\ run.conclusion # "success"
            /\ run.created_at >= three_months_ago
            /\ \E i \in DOMAIN runs : runs[i].id > run.id
            /\ \E j \in Range(Jobs(run.jobs_url)) : Qualifies(j)

Descending(s) == \A i \in 1..(Len(s) - 1) : s[i].created_at >= s[i + 1].created_at

ListingDescending == LET listing == WorkflowRuns IN Descending(listing)

InWindowSuccess(run) ==
    run.conclusion = "success" /\ run.created_at >= three_months_ago

\* C3: no retained run is older than the cutoff; and when the listing is in
\* descending creation-time order, the retained list after the listing loop is
\* exactly the successful runs created at or after the cutoff, in listing order.
C3_RetainedRuns ==
    /\ \A i \in DOMAIN runs : runs[i].created_at >= three_months_ago
    /\ (Listed /\ ListingDescending) =>
            runs = SelectSeq(WorkflowRuns, InWindowSuccess)

C3_Witness ==
    /\ pc = "listed"
    /\ ListingDescending
    /\ \E i \in DOMAIN runs : runs[i].created_at = three_months_ago
    /\ \E k \in 1..fixture.nruns :
        /\ RunAt(fixture, k).conclusion = "success"
        /\ RunAt(fixture, k).created_at < three_months_ago
    /\ \E k \in 1..fixture.nruns :
        /\ RunAt(fixture, k).conclusion # "success"
        /\ RunAt(fixture, k).created_at > three_months_ago

\* page p of the listing is empty or holds a run older than the cutoff
StopsAt(listing, p) ==
    LET workflow_runs == PageOf(listing, PER_PAGE, p)
    IN  \/ workflow_runs = <<>>
        \/ \E i \in DOMAIN workflow_runs : workflow_runs[i].created_at < three_months_ago

\* the first such page
StopPage ==
    LET listing == WorkflowRuns
        stops == {p \in 1..(Len(listing) \div PER_PAGE + 2) : StopsAt(listing, p)}
    IN  CHOOSE p \in stops : \A q \in stops : p <= q

\* C4: the run-listing pages requested are 1, 2, 3, ... in order, none beyond
\* the first page that is empty or holds a run older than the cutoff, and the
\* loop ends having requested exactly up to that page.
C4_PagesRequested ==
    LET last == StopPage
    IN  /\ run_requests = [k \in 1..Len(run_requests) |-> k]
        /\ Len(run_requests) <= last
        /\ Listed => Len(run_requests) = last

C4_Witness ==
    /\ pc = "listed"
    /\ run_requests = <<1, 2, 3>>
    /\ PageOf(WorkflowRuns, PER_PAGE, 3)[1].created_at < three_months_ago
    /\ StopPage = 3
    /\ PageOf(WorkflowRuns, PER_PAGE, 4) # <<>>

\* C5: once a response carried an error status, the CSV file of this execution
\* is never opened and holds no line.
C5_NoCsvAfterHttpError ==
    http_failed => (~csv.opened /\ csv.lines = <<>>)

C5_Witness ==
    /\ http_failed
    /\ pc = "aborted"
    /\ \E i, j \in DOMAIN tasks :
        /\ tasks[i].status = "failed"
        /\ tasks[j].status = "done" /\ tasks[j].run_results # <<>>

\* the sequential policy: the job list of a run, page by page until a short page
RECURSIVE SequentialFetch(_, _)
SequentialFetch(url, p) ==
    LET jobs == PageOf(Jobs(url), PER_PAGE, p)
    IN  IF Len(jobs) < PER_PAGE THEN jobs ELSE jobs \o SequentialFetch(url, p + 1)

\* the sequential policy: the retained runs one at a time, in listing order
SequentialResults ==
    Concat([i \in DOMAIN runs |->
        RowsOfQualifying(runs[i], SequentialFetch(runs[i].jobs_url, 1))])

\* C6: whatever the interleaving of the tasks' requests and completions, the
\* flattened results are, as a multiset, those of processing the retained runs
\* one at a time in listing order.
C6_SameMultisetAsSequential ==
    Flattened => BagOfSeq(results) = BagOfSeq(SequentialResults)

C6_Witness ==
    /\ pc = "done"
    /\ Len(completed) >= 2
    /\ completed[1] > completed[2]
    /\ \A i \in DOMAIN tasks : tasks[i].run_results # <<>>
    /\ \E i \in DOMAIN tasks : Len(tasks[i].requested) >= 2

\* C7 as stated: the re-run against the same fixture ends with the same set
\* of rows as the first execution.
C7_RerunSameRows ==
    (execution = 2 /\ pc = "done") => Range(results) = Range(previous.results)

\* no listed run is older than one execution's cutoff and not the other's
SameWindow ==
    LET listing == WorkflowRuns
    IN  \A k \in DOMAIN listing :
            (listing[k].created_at < previous.three_months_ago)
                <=> (listing[k].created_at < three_months_ago)

\* C7 amended: the re-run against the same fixture ends with the same set of
\* rows as the first execution, provided no listed run was created between
\* the cutoffs the two executions computed from the clock.
C7_RerunSameRowsSameWindow ==
    (execution = 2 /\ pc = "done" /\ SameWindow) =>
        Range(results) = Range(previous.results)

C7_Witness ==
    /\ execution = 2
    /\ pc = "done"
    /\ SameWindow
    /\ three_months_ago > previous.three_months_ago
    /\ Len(runs) >= 2
    /\ results # <<>>

\* C8 as stated: the rows are flattened in the order the tasks completed.
C8_RowsInCompletionOrder ==
    Flattened =>
        results = Concat([k \in DOMAIN completed |-> tasks[completed[k]].run_results])

\* C8 amended: whatever the order in which the tasks complete, the flattened
\* rows, and the CSV lines after the header, are in the listing order of the
\* retained runs, each run's rows in the order of its job list.
C8_RowsInListingOrder ==
    /\ Flattened =>
        results = Concat([i \in DOMAIN runs |->
                      RunResults(runs[i], Jobs(runs[i].jobs_url))])
    /\ pc = "done" =>
        Tail(csv.lines) = [k \in DOMAIN results |-> CsvLine(results[k])]

C8_Witness ==
    /\ pc = "done"
    /\ Len(completed) >= 2
    /\ completed[1] > completed[2]
    /\ tasks[1].run_results # <<>>
    /\ tasks[2].run_results # <<>>
    /\ tasks[1].run_results # tasks[2].run_results

Hung(i) == tasks[i].status = "hung"

\* C9: the results are flattened and the CSV file opened only when every task
\* has completed; a task whose request never completes stays so, and the CSV
\* file is not opened while there is one.
C9_FlattenAfterAllTasks ==
    /\ [](   /\ (Flattened \/ results # <<>> \/ csv.opened) =>
                    \A i \in DOMAIN tasks : tasks[i].status = "done"
             /\ (\E i \in DOMAIN tasks : Hung(i)) => ~csv.opened)
    /\ [][\A i \in DOMAIN tasks : Hung(i) => (i \in DOMAIN tasks' /\ Hung(i)')]_vars

C9_Witness ==
    /\ pc = "gathering"
    /\ \E i, j \in DOMAIN tasks :
        /\ Hung(i)
        /\ tasks[j].status = "done" /\ tasks[j].run_results # <<>>
    /\ ~csv.opened

\* C10: a task requests the job pages 1, 2, ... in order, every page before
\* its last request was full, it holds the jobs of the pages it received, once
\* each and in order, and it returns with all N jobs of the run after exactly
\* N \div 100 + 1 requests.
C10_JobPagination ==
    \A i \in DOMAIN tasks :
        LET t == tasks[i]
            jobs == Jobs(t.run.jobs_url)
            received == IF t.status \in {"hung", "failed"}
                        THEN Len(t.requested) - 1 ELSE Len(t.requested)
        IN  /\ t.requested = [k \in 1..Len(t.requested) |-> k]
            /\ \A k \in 1..(Len(t.requested) - 1) :
                   Len(PageOf(jobs, PER_PAGE, k)) = PER_PAGE
            /\ t.all_jobs = SubSeq(jobs, 1, Min(received * PER_PAGE, Len(jobs)))
            /\ t.status = "done" =>
                /\ t.all_jobs = jobs
                /\ Len(t.requested) = Len(jobs) \div PER_PAGE + 1

C10_Witness ==
    \E i, j \in DOMAIN tasks :
        /\ tasks[i].status = "done"
        /\ Len(tasks[i].all_jobs) = 2 * PER_PAGE
        /\ tasks[i].requested = <<1, 2, 3>>
        /\ tasks[j].status = "done"
        /\ Len(tasks[j].all_jobs) = 2 * PER_PAGE - 1
        /\ tasks[j].requested = <<1, 2>>

====
